---- MODULE Spec2Model ----
(***************************************************************************)
(* State-machine model of hn_digest.py: the retry-wrapped fetch client,    *)
(* the discovery stage, the article extractor, the comment aggregator,     *)
(* section assembly, PDF generation and main's exit handling.              *)
(***************************************************************************)
EXTENDS Integers, Sequences, FiniteSets, TLC

\* ------------------------------------------------------------------------
\* Program constants
\* ------------------------------------------------------------------------
MAX_POSTS == 10
MAX_COMMENTS == 5
Retries == 3
BatchMargin == 10
PoolSize == 10
MissingPosition == 999
SecondsPerDay == 86400

\* ------------------------------------------------------------------------
\* Bounds of the model
\* ------------------------------------------------------------------------
MaxHits == 2
MaxKids == 3
MaxKidsMain == 1
MaxLimit == 2

\* Invocation times (UTC epoch seconds): exactly at a UTC midnight and one
\* second before the next one.
NowChoices == {1793491200, 1793577599}

\* ------------------------------------------------------------------------
\* Small helpers
\* ------------------------------------------------------------------------
Min(a, b) == IF a < b THEN a ELSE b

Range(s) == {s[i] : i \in 1..Len(s)}

\* Python slice s[:n]
Prefix(s, n) == SubSeq(s, 1, Min(Len(s), n))

\* The elements of s at the indices in T, in the order of s
Pick(s, T) ==
    [k \in 1..Cardinality(T) |->
        s[CHOOSE i \in T : Cardinality({j \in T : j < i}) = k - 1]]

VARIABLES
    pc,        \* position of the main thread
    caller,    \* who called fetch_top_comments: "main", or "direct" for a
               \* call on its own, or "long" for one on a long thread
    now,       \* clock reading taken by find_top_posts_yesterday
    filter,    \* numericFilters clauses sent with the discovery query
    posts,     \* result of find_top_posts_yesterday
    idx,       \* 1-based index of the post main's loop is working on
    article,   \* fetch_article result for the current post
    entries,   \* main's entries list
    artifact,  \* the written PDF
    exitCode,  \* process exit code, -1 while running
    fatal,     \* class of the exception that ended the run
    hist,      \* outcomes of the attempts of the main thread's current retry call
    slept,     \* sleeps of the main thread's current retry call
    call,      \* state of that call: "idle", "running", "returned", "raised"
    lookups,   \* kinds of per-post upstream fetches issued in this run
    limit,     \* limit argument of fetch_top_comments
    kid_ids,   \* story.get("kids", [])
    fut,       \* futures of the candidate batch: the id looked up, the state
               \* of the lookup, the attempts made so far, and what it gave
               \* ("pending", "failed" for None, or the shape of the item)
    comments,  \* local list filled by the as_completed loop
    result,    \* value returned by the last fetch_top_comments call
    tz,        \* offset of the host's local time from UTC, in seconds
    elapsed,   \* seconds between the clock reading of discovery and the
               \* one of generate_pdf
    url,       \* url argument of a fetch_article call followed step by step
    imgs,      \* src of every img of the extracted fragment, as found
    outs       \* src of the imgs the loop of fetch_article has gone over

vars == <<pc, caller, now, filter, posts, idx, article, entries, artifact,
          exitCode, fatal, hist, slept, call, lookups, limit, kid_ids, fut,
          comments, result, tz, elapsed, url, imgs, outs>>

\* ------------------------------------------------------------------------
\* _request_with_retry
\* ------------------------------------------------------------------------
\* What one requests.get can produce: a response with a status code, or a
\* connection error, or a timeout.
Outcomes == {"s200", "s304", "s500", "conn", "timeout"}

StatusOf(o) == IF o = "s200" THEN 200 ELSE IF o = "s304" THEN 304 ELSE 500

\* requests.get raises for connection errors and timeouts;
\* resp.raise_for_status() raises HTTPError for 400 <= status < 600.
AttemptRaises(o) ==
    \/ o \in {"conn", "timeout"}
    \/ (400 <= StatusOf(o) /\ StatusOf(o) < 600)

\* Variant: the loop gives up one iteration later
RetryStepOneMore(attempt, o) ==
    IF ~AttemptRaises(o) THEN "return"
    ELSE IF attempt = Retries THEN "raise"
    ELSE "sleep"

\* One iteration of the retry loop: "return" the response, "raise" the
\* failure to the caller, or "sleep" and go round again.
RetryStep(attempt, o) ==
    IF ~AttemptRaises(o) THEN "return"
    ELSE IF attempt = Retries - 1 THEN "raise"
    ELSE "sleep"

\* Variant: the delay is the 0-based attempt index
SleepSecondsFromZero(attempt) == 1 * attempt

\* time.sleep(1 * (attempt + 1))
SleepSeconds(attempt) == 1 * (attempt + 1)

\* resp.json(): only a 200 response of these services carries a JSON body;
\* on any other body requests raises JSONDecodeError (a RequestException).
JsonRaises(o) == o # "s200"

\* ------------------------------------------------------------------------
\* main's exception handling
\* ------------------------------------------------------------------------
\* Variant: a bare "except:" that also catches SystemExit
CaughtByMainBare(cls) == TRUE

\* "except Exception" catches every exception class except those that derive
\* from BaseException only (SystemExit).
CaughtByMain(cls) == cls # "SystemExit"

\* Variant: the handler logs the error and falls off the end of main
MainExitCodeSwallowed(cls, code) == IF CaughtByMain(cls) THEN 0 ELSE code

\* Exit code of the process when an exception of class cls, carrying exit
\* code `code` if it is a SystemExit, leaves main's try block.
MainExitCode(cls, code) == IF CaughtByMain(cls) THEN 1 ELSE code

\* ------------------------------------------------------------------------
\* find_top_posts_yesterday
\* ------------------------------------------------------------------------
\* datetime.now(timezone.utc).replace(hour=0, minute=0, second=0, microsecond=0)
TodayUtc(t) == t - (t % SecondsPerDay)

YesterdayStart(t) == TodayUtc(t) - SecondsPerDay

YesterdayEnd(t) == TodayUtc(t)

\* f"created_at_i>{start_ts},created_at_i<{end_ts}"
NumericFilters(t) ==
    << [op |-> ">", val |-> YesterdayStart(t)],
       [op |-> "<", val |-> YesterdayEnd(t)] >>

\* The search index's evaluation of one clause and of the whole filter
ClauseHolds(c, x) ==
    IF c.op = ">" THEN x > c.val
    ELSE IF c.op = ">=" THEN x >= c.val
    ELSE IF c.op = "<" THEN x < c.val
    ELSE x <= c.val

Matches(f, x) == \A i \in 1..Len(f) : ClauseHolds(f[i], x)

\* The stories the index holds around the window of a run invoked at t, in
\* the index's own (relevance) order.
\* story_text: "None" (absent), "" (empty) or "text".
IndexStories(t) ==
    LET s == YesterdayStart(t)
        e == YesterdayEnd(t)
    IN << [id |-> 52, url |-> TRUE,  story_text |-> "None", created_at_i |-> s - 1],
          [id |-> 33, url |-> TRUE,  story_text |-> "text", created_at_i |-> s + 7200],
          [id |-> 64, url |-> TRUE,  story_text |-> "None", created_at_i |-> s],
          [id |-> 17, url |-> FALSE, story_text |-> "text", created_at_i |-> s + 3600],
          [id |-> 41, url |-> TRUE,  story_text |-> "None", created_at_i |-> s + 1],
          [id |-> 76, url |-> FALSE, story_text |-> "text", created_at_i |-> e],
          [id |-> 28, url |-> FALSE, story_text |-> "",     created_at_i |-> e - 1] >>

\* The hit lists the index can answer a query with: stories that satisfy the
\* filter, in the index's order, at most hitsPerPage of them.
PossibleHits(t, f, hitsPerPage) ==
    LET idxs == {i \in 1..Len(IndexStories(t)) :
                    Matches(f, IndexStories(t)[i].created_at_i)}
    IN {Pick(IndexStories(t), T) :
           T \in {U \in SUBSET idxs : Cardinality(U) <= Min(hitsPerPage, MaxHits)}}

NoArtifact ==
    [written |-> FALSE, name |-> << >>, toc_date |-> << >>, toc |-> << >>,
     sections |-> << >>]

Terminate(cls, code) ==
    /\ pc' = "exit"
    /\ fatal' = cls
    /\ exitCode' = MainExitCode(cls, code)

\* The start of main.  The host is on UTC and the run takes no time here;
\* InitDate and ClockAdvance lift both.
Init ==
    /\ pc = "start"
    /\ caller = "main"
    /\ now \in NowChoices
    /\ filter = << >>
    /\ posts = << >>
    /\ idx = 0
    /\ article = "None"
    /\ entries = << >>
    /\ artifact = NoArtifact
    /\ exitCode = -1
    /\ fatal = "none"
    /\ hist = << >>
    /\ slept = << >>
    /\ call = "idle"
    /\ lookups = {}
    /\ limit = MAX_COMMENTS
    /\ kid_ids = << >>
    /\ fut = << >>
    /\ comments = << >>
    /\ result = << >>
    /\ tz = 0
    /\ elapsed = 0
    /\ url = << >>
    /\ imgs = << >>
    /\ outs = << >>

\* main enters find_top_posts_yesterday: the window and the query parameters
FindTopPostsBegin ==
    /\ pc = "start"
    /\ pc' = "discover"
    /\ filter' = NumericFilters(now)
    /\ hist' = << >>
    /\ slept' = << >>
    /\ call' = "running"
    /\ UNCHANGED <<caller, now, tz, elapsed, url, imgs, outs, posts, idx, article, entries, artifact, exitCode,
                   fatal, lookups, limit, kid_ids, fut, comments, result>>

\* One attempt of the discovery query and, when it is the last one of the
\* retry call, the rest of find_top_posts_yesterday.
DiscoverAttempt ==
    /\ pc = "discover"
    /\ \E o \in Outcomes :
        LET step == RetryStep(Len(hist), o) IN
        /\ hist' = Append(hist, o)
        /\ \/ /\ step = "sleep"
              /\ slept' = Append(slept, SleepSeconds(Len(hist)))
              /\ UNCHANGED <<pc, call, posts, idx, exitCode, fatal>>
           \/ /\ step = "raise"
              /\ call' = "raised"
              /\ Terminate("RequestException", 1)
              /\ UNCHANGED <<slept, posts, idx>>
           \/ /\ step = "return"
              /\ JsonRaises(o)
              /\ call' = "returned"
              /\ Terminate("RequestException", 1)
              /\ UNCHANGED <<slept, posts, idx>>
           \/ /\ step = "return"
              /\ ~JsonRaises(o)
              /\ call' = "returned"
              /\ \E hits \in PossibleHits(now, filter, MAX_POSTS) :
                    IF hits = << >>
                    THEN /\ Terminate("SystemExit", 0)
                         /\ UNCHANGED <<posts, idx>>
                    ELSE /\ posts' = Prefix(hits, MAX_POSTS)
                         /\ idx' = 1
                         /\ pc' = "post"
                         /\ UNCHANGED <<exitCode, fatal>>
              /\ UNCHANGED slept
    /\ UNCHANGED <<caller, now, tz, elapsed, url, imgs, outs, filter, article, entries, artifact, lookups,
                   limit, kid_ids, fut, comments, result>>

\* ------------------------------------------------------------------------
\* fetch_article
\* ------------------------------------------------------------------------
\* Pages a URL can serve: one readability reduces to a fragment, one on which
\* Document(...).summary() raises, and one whose fragment holds an image
\* source that urljoin rejects (ValueError, e.g. src="//[bad/a.png").
Pages == {"readable", "unparseable", "badimg"}

\* A response without a 200 status has no page body to reduce.
PagesFor(o) == IF o = "s200" THEN Pages ELSE {"unparseable"}

\* Result of fetch_article(url) for a present url: "None", "content" (the
\* dict holding content_html) or "raise" (an exception leaves the function).
FetchArticleResult(o, page) ==
    IF AttemptRaises(o) THEN "None"
    ELSE IF page = "unparseable" THEN "None"
    ELSE IF page = "badimg" THEN "raise"
    ELSE "content"

\* --- fetch_article followed step by step --------------------------------
\* A URL or a src attribute is a string, kept as the sequence of its lexical
\* tokens: "https://ex.com/post" is <<"https", ":", "//", "ex.com", "/",
\* "post">>.  The empty sequence is the empty string; an img without a src
\* attribute (None) takes the same branch as one with an empty src.
PageUrls ==
    { <<"https", ":", "//", "ex.com", "/", "post">>,
      <<"https", ":", "//", "ex.com", "/", "blog", "/", "2026", "/", "post.html">> }

Srcs ==
    { <<"/", "img", "/", "a.png">>,
      <<"a.png">>,
      <<"img", "/", "a.png">>,
      <<"..", "/", "a.png">>,
      <<".", "/", "a.png">>,
      <<"//", "cdn.com", "/", "a.png">>,
      <<"http", ":", "//", "cdn.com", "/", "a.png">>,
      <<"https", ":", "//", "cdn.com", "/", "a.png">>,
      <<"data", ":", "image/png;base64,AAAA">>,
      <<"ftp", ":", "//", "cdn.com", "/", "a.png">>,
      << >>,
      <<"//", "[bad", "/", "a.png">> }

MaxImgs == 2

SeqsUpTo(S, n) == UNION {[1..k -> S] : k \in 0..n}

\* str.startswith
StartsWith(s, p) == Len(s) >= Len(p) /\ SubSeq(s, 1, Len(p)) = p

\* The condition of the img loop: a non-empty src that does not start with
\* one of the three prefixes
NeedsJoin(src) ==
    /\ src # << >>
    /\ ~(\/ StartsWith(src, <<"http", ":", "//">>)
         \/ StartsWith(src, <<"https", ":", "//">>)
         \/ StartsWith(src, <<"data", ":">>))

\* urllib.parse: schemes that take a relative reference and a netloc
UsesRelative == {"", "ftp", "http", "https", "file"}
UsesNetloc == {"", "ftp", "http", "https", "file"}

\* urlparse(t, default): scheme, netloc and path of a string; bad tells that
\* urlsplit raises ValueError (a netloc with "[" and no "]")
UrlParse(t, default) ==
    LET has_scheme == Len(t) >= 2 /\ t[2] = ":"
        rest == IF has_scheme THEN SubSeq(t, 3, Len(t)) ELSE t
        has_netloc == Len(rest) >= 2 /\ rest[1] = "//" /\ rest[2] # "/"
    IN [scheme |-> IF has_scheme THEN t[1] ELSE default,
        netloc |-> IF has_netloc THEN rest[2] ELSE "",
        path |-> IF has_netloc THEN SubSeq(rest, 3, Len(rest)) ELSE rest,
        bad |-> has_netloc /\ rest[2] = "[bad"]

\* urlunparse: a path that follows a netloc is given its leading slash
UrlUnparse(scheme, netloc, path) ==
    (IF scheme # "" THEN <<scheme, ":">> ELSE << >>)
    \o (IF netloc # "" THEN <<"//", netloc>> ELSE << >>)
    \o (IF netloc # "" /\ path # << >> /\ path[1] # "/" THEN <<"/">> ELSE << >>)
    \o path

\* path.split('/')
RECURSIVE Split(_)
Split(p) ==
    IF p = << >> THEN <<"">>
    ELSE IF p[1] = "/" THEN <<"">> \o Split(Tail(p))
    ELSE IF Len(p) = 1 THEN <<p[1]>>
    ELSE <<p[1]>> \o Split(SubSeq(p, 3, Len(p)))

\* '/'.join(segs)
RECURSIVE Join(_)
Join(segs) ==
    LET tok(x) == IF x = "" THEN << >> ELSE <<x>> IN
    IF segs = << >> THEN << >>
    ELSE IF Len(segs) = 1 THEN tok(segs[1])
    ELSE tok(segs[1]) \o <<"/">> \o Join(Tail(segs))

\* segments[1:-1] = filter(None, segments[1:-1])
FilterMiddle(segs) ==
    IF Len(segs) <= 2 THEN segs
    ELSE <<segs[1]>>
         \o SelectSeq(SubSeq(segs, 2, Len(segs) - 1), LAMBDA x : x # "")
         \o <<segs[Len(segs)]>>

\* The loop over the segments that drops "." and resolves ".."
RECURSIVE RemoveDots(_, _)
RemoveDots(segs, resolved) ==
    IF segs = << >> THEN resolved
    ELSE IF Head(segs) = ".."
         THEN RemoveDots(Tail(segs),
                         IF resolved = << >> THEN resolved
                         ELSE SubSeq(resolved, 1, Len(resolved) - 1))
    ELSE IF Head(segs) = "." THEN RemoveDots(Tail(segs), resolved)
    ELSE RemoveDots(Tail(segs), Append(resolved, Head(segs)))

\* urljoin raises when urlparse of one of its arguments does
UrlJoinRaises(base, u) == UrlParse(base, "").bad \/ UrlParse(u, "").bad

\* Variant: the src is appended to the page URL
UrlJoinConcat(base, u) == base \o u

\* urljoin(base, u) for non-empty base and u
UrlJoin(base, u) ==
    LET b == UrlParse(base, "")
        r == UrlParse(u, b.scheme)
        base_parts == IF Split(b.path)[Len(Split(b.path))] # ""
                      THEN SubSeq(Split(b.path), 1, Len(Split(b.path)) - 1)
                      ELSE Split(b.path)
        segments == IF r.path # << >> /\ r.path[1] = "/"
                    THEN Split(r.path)
                    ELSE FilterMiddle(base_parts \o Split(r.path))
        trailing == IF segments[Len(segments)] \in {".", ".."} THEN <<"">> ELSE << >>
        resolved_path == RemoveDots(segments, << >>) \o trailing
    IN IF r.scheme # b.scheme \/ r.scheme \notin UsesRelative THEN u
       ELSE IF r.scheme \in UsesNetloc /\ r.netloc # ""
            THEN UrlUnparse(r.scheme, r.netloc, r.path)
       ELSE IF r.path = << >> THEN UrlUnparse(r.scheme, b.netloc, b.path)
       ELSE UrlUnparse(r.scheme, b.netloc,
                       IF Join(resolved_path) = << >> THEN <<"/">>
                       ELSE Join(resolved_path))

\* The page kind of the one-step view above that a fragment with these
\* image sources belongs to
PageKind(u, srcs) ==
    IF \E k \in 1..Len(srcs) : NeedsJoin(srcs[k]) /\ UrlJoinRaises(u, srcs[k])
    THEN "badimg" ELSE "readable"

\* requests.get, raise_for_status, readability and BeautifulSoup: the call
\* returns None, or reaches the img loop with the fragment's images
ArticleGet ==
    /\ pc = "get"
    /\ \E o \in Outcomes :
        /\ hist' = Append(hist, o)
        /\ \E page \in PagesFor(o) :
            IF AttemptRaises(o) \/ page = "unparseable"
            THEN /\ pc' = "returned"
                 /\ article' = FetchArticleResult(o, page)
                 /\ UNCHANGED imgs
            ELSE /\ pc' = "imgs"
                 /\ \E srcs \in SeqsUpTo(Srcs, MaxImgs) :
                       /\ PageKind(url, srcs) = page
                       /\ imgs' = srcs
                 /\ UNCHANGED article
    /\ UNCHANGED <<caller, now, tz, elapsed, url, outs, filter, posts, idx,
                   entries, artifact, exitCode, fatal, slept, call, lookups,
                   limit, kid_ids, fut, comments, result>>

\* One iteration of the img loop; a ValueError of urljoin leaves the function
ImgStep ==
    /\ pc = "imgs"
    /\ Len(outs) < Len(imgs)
    /\ LET src == imgs[Len(outs) + 1] IN
        IF NeedsJoin(src)
        THEN IF UrlJoinRaises(url, src)
             THEN /\ pc' = "returned"
                  /\ article' = "raise"
                  /\ UNCHANGED outs
             ELSE /\ outs' = Append(outs, UrlJoin(url, src))
                  /\ UNCHANGED <<pc, article>>
        ELSE /\ outs' = Append(outs, src)
             /\ UNCHANGED <<pc, article>>
    /\ UNCHANGED <<caller, now, tz, elapsed, url, imgs, filter, posts, idx,
                   entries, artifact, exitCode, fatal, hist, slept, call,
                   lookups, limit, kid_ids, fut, comments, result>>

\* return {"content_html": str(soup)}
ArticleReturn ==
    /\ pc = "imgs"
    /\ Len(outs) = Len(imgs)
    /\ pc' = "returned"
    /\ article' = "content"
    /\ UNCHANGED <<caller, now, tz, elapsed, url, imgs, outs, filter, posts,
                   idx, entries, artifact, exitCode, fatal, hist, slept, call,
                   lookups, limit, kid_ids, fut, comments, result>>

\* ------------------------------------------------------------------------
\* fetch_item / fetch_top_comments
\* ------------------------------------------------------------------------
NoneItem ==
    [id |-> 0, type |-> "None", deleted |-> FALSE, dead |-> FALSE,
     kids |-> 0, text |-> FALSE, by |-> FALSE]

\* JSON bodies the item endpoint can answer a candidate lookup with.
\* kids is the length of the item's own reply-identifier list; text and by
\* tell whether the field is present.
ItemShapes == {"c3", "c1bare", "c0", "deleted", "dead", "job", "null"}

\* In a whole run the items matter only through what is rendered of them:
\* a full comment, a bare one, a filtered one and a missing one are drawn.
ItemShapesIn(c) ==
    IF c = "main" THEN {"c3", "c1bare", "deleted", "null"} ELSE ItemShapes

ItemJson(cid, shape) ==
    IF shape = "c3" THEN
        [id |-> cid, type |-> "comment", deleted |-> FALSE, dead |-> FALSE,
         kids |-> 3, text |-> TRUE, by |-> TRUE]
    ELSE IF shape = "c1bare" THEN
        [id |-> cid, type |-> "comment", deleted |-> FALSE, dead |-> FALSE,
         kids |-> 1, text |-> FALSE, by |-> FALSE]
    ELSE IF shape = "c0" THEN
        [id |-> cid, type |-> "comment", deleted |-> FALSE, dead |-> FALSE,
         kids |-> 0, text |-> TRUE, by |-> TRUE]
    ELSE IF shape = "deleted" THEN
        [id |-> cid, type |-> "comment", deleted |-> TRUE, dead |-> FALSE,
         kids |-> 3, text |-> FALSE, by |-> FALSE]
    ELSE IF shape = "dead" THEN
        [id |-> cid, type |-> "comment", deleted |-> FALSE, dead |-> TRUE,
         kids |-> 3, text |-> TRUE, by |-> TRUE]
    ELSE IF shape = "job" THEN
        [id |-> cid, type |-> "job", deleted |-> FALSE, dead |-> FALSE,
         kids |-> 3, text |-> TRUE, by |-> TRUE]
    ELSE NoneItem

\* "if item": None and the JSON null are falsy
Truthy(item) == item.type # "None"

\* Variant: the filter also wants a body text
KeepsItemWithText(item) ==
    /\ Truthy(item)
    /\ item.type = "comment"
    /\ ~item.deleted
    /\ ~item.dead
    /\ item.text

\* Variant: the filter without the dead check
KeepsItemDeadToo(item) ==
    /\ Truthy(item)
    /\ item.type = "comment"
    /\ ~item.deleted

\* The filter of the as_completed loop
KeepsItem(item) ==
    /\ Truthy(item)
    /\ item.type = "comment"
    /\ ~item.deleted
    /\ ~item.dead

\* Reply identifiers of a story with n replies, in the story's own order
KidIds(n) == [i \in 1..n |-> 100 + ((i * 37) % 101)]

\* position_map = {cid: i for i, cid in enumerate(kid_ids)} and its
\* .get(id, 999): 0-based, the last occurrence wins
PositionOf(kids, id) ==
    IF \E i \in 1..Len(kids) : kids[i] = id
    THEN (CHOOSE i \in 1..Len(kids) :
             /\ kids[i] = id
             /\ \A j \in 1..Len(kids) : kids[j] = id => j <= i) - 1
    ELSE MissingPosition

\* Variant: the sort key without the position tie-break
SortKeyRepliesOnly(c, kids) == << 0 - c.kids, 0 >>

\* The sort key (-len(c.get("kids", [])), position_map.get(c["id"], 999))
SortKey(c, kids) == << 0 - c.kids, PositionOf(kids, c.id) >>

KeyLess(a, b) == a[1] < b[1] \/ (a[1] = b[1] /\ a[2] < b[2])

\* list.sort(key=...) is stable: an element goes after every element whose
\* key is not greater than its own.
RECURSIVE InsertByKey(_, _, _)
InsertByKey(sorted, c, kids) ==
    IF sorted = << >> THEN << c >>
    ELSE IF KeyLess(SortKey(c, kids), SortKey(sorted[1], kids))
         THEN << c >> \o sorted
         ELSE << sorted[1] >> \o InsertByKey(Tail(sorted), c, kids)

RECURSIVE SortComments(_, _)
SortComments(cs, kids) ==
    IF cs = << >> THEN << >>
    ELSE InsertByKey(SortComments(SubSeq(cs, 1, Len(cs) - 1), kids),
                     cs[Len(cs)], kids)

\* batch_ids = kid_ids[: limit + 10]
KidsBound == IF caller = "main" THEN MaxKidsMain ELSE MaxKids

\* A long thread (caller = "long") is a story with as many replies as the
\* batch takes, or ExtraKids more.  Each of its lookups is answered at the
\* first attempt, and the item at a position of the reply list is fixed:
\* three comments among removed ones.
ExtraKids == 2

KidCounts ==
    IF caller = "long"
    THEN {limit + BatchMargin, limit + BatchMargin + ExtraKids}
    ELSE 0..KidsBound

LookupOutcomes == IF caller = "long" THEN {"s200"} ELSE Outcomes

LongShape(i) ==
    IF i = 1 THEN "c0"
    ELSE IF i = 11 THEN "c3"
    ELSE IF i = 12 THEN "c1bare"
    ELSE "deleted"

ShapesAt(i) == IF caller = "long" THEN {LongShape(i)} ELSE ItemShapesIn(caller)

\* Variant: every reply of the story is looked up
BatchIdsAll(kids, lim) == kids

BatchIds(kids, lim) == Prefix(kids, lim + BatchMargin)

\* Variant: main goes on to generate_pdf after the first post
ReturnThenRender(res, h, c, cs) ==
    IF caller = "main"
    THEN /\ entries' = Append(entries, [post |-> posts[idx],
                                        article |-> article,
                                        comments |-> res])
         /\ idx' = idx /\ pc' = "render"
         /\ hist' = << >> /\ slept' = << >> /\ call' = "idle"
         /\ kid_ids' = << >> /\ fut' = << >> /\ comments' = << >>
         /\ result' = << >>
    ELSE /\ pc' = "returned"
         /\ result' = res
         /\ hist' = h /\ call' = c /\ comments' = cs
         /\ UNCHANGED <<entries, idx, slept, kid_ids, fut>>

\* Variant: main puts the new entry at the front of entries
ReturnPrepend(res, h, c, cs) ==
    IF caller = "main"
    THEN /\ entries' = << [post |-> posts[idx], article |-> article,
                           comments |-> res] >> \o entries
         /\ IF idx < Len(posts)
            THEN idx' = idx + 1 /\ pc' = "post"
            ELSE idx' = idx /\ pc' = "render"
         /\ hist' = << >> /\ slept' = << >> /\ call' = "idle"
         /\ kid_ids' = << >> /\ fut' = << >> /\ comments' = << >>
         /\ result' = << >>
    ELSE /\ pc' = "returned"
         /\ result' = res
         /\ hist' = h /\ call' = c /\ comments' = cs
         /\ UNCHANGED <<entries, idx, slept, kid_ids, fut>>

\* fetch_top_comments returns res to its caller. In main the loop body goes
\* on to entries.append and to the next post or to generate_pdf, and the
\* locals of the call are gone. Called on its own, the call ends with the
\* attempts h and the state c of its story lookup and the local list cs.
Return(res, h, c, cs) ==
    IF caller = "main"
    THEN /\ entries' = Append(entries, [post |-> posts[idx],
                                        article |-> article,
                                        comments |-> res])
         /\ IF idx < Len(posts)
            THEN idx' = idx + 1 /\ pc' = "post"
            ELSE idx' = idx /\ pc' = "render"
         /\ hist' = << >> /\ slept' = << >> /\ call' = "idle"
         /\ kid_ids' = << >> /\ fut' = << >> /\ comments' = << >>
         /\ result' = << >>
    ELSE /\ pc' = "returned"
         /\ result' = res
         /\ hist' = h /\ call' = c /\ comments' = cs
         /\ UNCHANGED <<entries, idx, slept, kid_ids, fut>>

\* fetch_top_comments is entered: its story lookup is about to start
EnterFetchTopComments ==
    /\ pc' = "story"
    /\ limit' = MAX_COMMENTS
    /\ hist' = << >>
    /\ slept' = << >>
    /\ call' = "running"
    /\ kid_ids' = << >>
    /\ fut' = << >>
    /\ comments' = << >>

\* The loop body of main up to the call of fetch_top_comments:
\* fetch_article for a post with a URL
FetchArticle ==
    /\ pc = "post"
    /\ IF ~posts[idx].url
       THEN /\ article' = "None"
            /\ EnterFetchTopComments
            /\ UNCHANGED <<exitCode, fatal, lookups>>
       ELSE \E o \in Outcomes : \E page \in PagesFor(o) :
            LET r == FetchArticleResult(o, page) IN
            /\ lookups' = lookups \cup {"article"}
            /\ IF r = "raise"
               THEN /\ Terminate("ValueError", 1)
                    /\ UNCHANGED <<article, limit, hist, slept, call, kid_ids,
                                   fut, comments>>
               ELSE /\ article' = r
                    /\ EnterFetchTopComments
                    /\ UNCHANGED <<exitCode, fatal>>
    /\ UNCHANGED <<caller, now, tz, elapsed, url, imgs, outs, filter, posts, idx, entries, artifact, result>>

\* One attempt of fetch_item(story_id) and, when it is the last one, the
\* code of fetch_top_comments up to the cut of the batch.
StoryAttempt ==
    /\ pc = "story"
    /\ lookups' = lookups \cup {"item"}
    /\ \E o \in Outcomes :
        LET step == RetryStep(Len(hist), o)
            h == Append(hist, o)
        IN
        \/ /\ step = "sleep"
           /\ hist' = h
           /\ slept' = Append(slept, SleepSeconds(Len(hist)))
           /\ UNCHANGED <<pc, call, kid_ids, fut, comments, result, entries, idx>>
        \/ /\ step = "raise"
           /\ Return(<< >>, h, "raised", comments)
        \/ /\ step = "return"
           /\ JsonRaises(o)
           /\ Return(<< >>, h, "returned", comments)
        \/ /\ step = "return"
           /\ ~JsonRaises(o)
           /\ \E n \in KidCounts :
                 IF n = 0
                 THEN Return(<< >>, h, "returned", comments)
                 ELSE /\ kid_ids' = KidIds(n)
                      /\ pc' = "submit"
                      /\ hist' = h
                      /\ call' = "returned"
                      /\ UNCHANGED <<slept, fut, comments, result, entries, idx>>
    /\ UNCHANGED <<caller, now, tz, elapsed, url, imgs, outs, filter, posts, article, artifact, exitCode,
                   fatal, limit>>

\* Variant: the executor starts a thread for every submitted lookup
StartedAll(i) == "running"

\* The executor has a thread for each of the first max_workers submitted
\* lookups; a later one waits in the work queue
StartedAtSubmit(i) == IF i <= PoolSize THEN "running" ELSE "queued"

\* A pool thread that has finished lookup i (the attempt counter of its
\* retry call is gone with the call) takes the next queued one
AfterFinish(f, i) ==
    LET done == [f EXCEPT ![i].st = "done", ![i].att = 0]
        queued == {j \in 1..Len(f) : f[j].st = "queued"}
    IN IF queued = {} THEN done
       ELSE [done EXCEPT ![CHOOSE j \in queued : \A k \in queued : j <= k].st = "running"]

\* batch_ids is cut and every candidate lookup submitted to the executor;
\* the retry call of the story lookup is over
SubmitBatch ==
    /\ pc = "submit"
    /\ fut' = [i \in 1..Len(BatchIds(kid_ids, limit)) |->
                 [cid |-> BatchIds(kid_ids, limit)[i],
                  st |-> StartedAtSubmit(i), att |-> 0, got |-> "pending"]]
    /\ comments' = << >>
    /\ hist' = << >>
    /\ slept' = << >>
    /\ call' = "idle"
    /\ pc' = "pool"
    /\ UNCHANGED <<caller, now, tz, elapsed, url, imgs, outs, filter, posts, idx, article, entries, artifact,
                   exitCode, fatal, lookups, limit, kid_ids, result>>

\* Variant: the loop appends whatever the lookup gave
LoopBodyNoFilter(cs, item) == Append(cs, item)

\* The as_completed loop body for the item a finished lookup produced
LoopBody(cs, item) == IF KeepsItem(item) THEN Append(cs, item) ELSE cs

\* One attempt of fetch_item(cid) in a pool thread and, when the lookup
\* ends with it, the iteration of the as_completed loop that takes the
\* finished future: the loop body touches only the local list, so the order
\* in which futures finish is the order in which they are appended.
WorkerAttempt(i) ==
    /\ pc = "pool"
    /\ fut[i].st = "running"
    /\ \E o \in LookupOutcomes :
        LET step == RetryStep(fut[i].att, o) IN
        \/ /\ step = "sleep"
           /\ fut' = [fut EXCEPT ![i].att = @ + 1]
           /\ UNCHANGED comments
        \/ /\ step = "raise"
           /\ fut' = [AfterFinish(fut, i) EXCEPT ![i].got = "failed"]
           /\ comments' = LoopBody(comments, NoneItem)
        \/ /\ step = "return"
           /\ JsonRaises(o)
           /\ fut' = [AfterFinish(fut, i) EXCEPT ![i].got = "failed"]
           /\ comments' = LoopBody(comments, NoneItem)
        \/ /\ step = "return"
           /\ ~JsonRaises(o)
           /\ \E shape \in ShapesAt(i) :
                /\ fut' = [AfterFinish(fut, i) EXCEPT ![i].got = shape]
                /\ comments' = LoopBody(comments, ItemJson(fut[i].cid, shape))
    /\ UNCHANGED <<pc, caller, now, tz, elapsed, url, imgs, outs, filter, posts, idx, article, entries,
                   artifact, exitCode, fatal, hist, slept, call, lookups,
                   limit, kid_ids, result>>

\* Variant: the loop stops as soon as limit comments are collected
FirstLimitCollected(f) ==
    \/ Len(comments) >= limit
    \/ \A i \in 1..Len(f) : f[i].st = "done"

\* as_completed has yielded every future and the with block has shut the
\* executor down, which waits for every submitted lookup
LoopOver(f) == \A i \in 1..Len(f) : f[i].st = "done"

\* The loop is over and the executor shut down: sort, truncate, return
SortAndReturn ==
    /\ pc = "pool"
    /\ LoopOver(fut)
    /\ Return(Prefix(SortComments(comments, kid_ids), limit), hist, call,
              SortComments(comments, kid_ids))
    /\ UNCHANGED <<caller, now, tz, elapsed, url, imgs, outs, filter, posts, article, artifact, exitCode,
                   fatal, lookups, limit>>

\* ------------------------------------------------------------------------
\* render_section / generate_pdf
\* ------------------------------------------------------------------------
\* Variant: the self-text is added after the article instead of replacing it
ArticleSectionMerged(post, art) ==
    IF art # "None" /\ post.story_text \notin {"None", ""}
    THEN << "article", "story_text" >>
    ELSE IF art # "None" THEN << "article" >>
    ELSE IF post.story_text \notin {"None", ""} THEN << "story_text" >>
    ELSE << "unavailable" >>

\* The body nodes put into the section, as a sequence
ArticleSection(post, art) ==
    IF art # "None" THEN << "article" >>
    ELSE IF post.story_text \notin {"None", ""} THEN << "story_text" >>
    ELSE << "unavailable" >>

CommentBlock(c) ==
    [author |-> IF c.by THEN "by" ELSE "[unknown]",
     body |-> IF c.text THEN "text" ELSE "<em>[deleted]</em>",
     reply_count |-> c.kids]

RenderSection(post, art, cs, rank, total) ==
    [rank |-> rank, total |-> total, story_id |-> post.id,
     url_link |-> post.url,
     article_section |-> ArticleSection(post, art),
     comment_count |-> Len(cs),
     comment_blocks |-> [k \in 1..Len(cs) |-> CommentBlock(cs[k])]]

TocEntries(es) == [i \in 1..Len(es) |-> [rank |-> i, title |-> es[i].post.id]]

Sections(es) ==
    [i \in 1..Len(es) |->
        RenderSection(es[i].post, es[i].article, es[i].comments, i, Len(es))]

\* date.today(): the day, counted from 1970-01-01, of the host's local time
\* at clock reading t, the local time being off seconds ahead of UTC
LocalToday(t, off) == (t + off) \div SecondsPerDay

\* Year, month and day of the proleptic Gregorian calendar for a day
\* counted from 1970-01-01, as the date type computes them
CivilFromDays(n) ==
    LET z == n + 719468
        era == z \div 146097
        doe == z - era * 146097
        yoe == (doe - (doe \div 1460) + (doe \div 36524) - (doe \div 146096)) \div 365
        doy == doe - (365 * yoe + (yoe \div 4) - (yoe \div 100))
        mp == (5 * doy + 2) \div 153
        m == IF mp < 10 THEN mp + 3 ELSE mp - 9
    IN [year |-> yoe + era * 400 + (IF m <= 2 THEN 1 ELSE 0),
        month |-> m,
        day |-> doy - ((153 * mp + 2) \div 5) + 1]

MonthNames ==
    <<"January", "February", "March", "April", "May", "June", "July",
      "August", "September", "October", "November", "December">>

\* yesterday = date.today() - timedelta(days=1)
Yesterday(t, off) == CivilFromDays(LocalToday(t, off) - 1)

\* f"{yesterday.isoformat()}.pdf"
FileName(d) == <<d.year, "-", d.month, "-", d.day, ".pdf">>

\* yesterday.strftime("%B %d, %Y")
TocDate(d) == <<MonthNames[d.month], d.day, ",", d.year>>

\* Host time zones and run durations (seconds) drawn for a dated run
TzChoices == {-28800, 0, 36000}

ElapsedChoices == {1, 3600}

\* The time the run took from the clock reading of discovery to the one of
\* generate_pdf; only the total matters, so it passes in one step before
\* the call
ClockAdvance ==
    /\ pc = "render"
    /\ elapsed = 0
    /\ elapsed' \in ElapsedChoices
    /\ UNCHANGED <<pc, caller, now, tz, url, imgs, outs, filter, posts, idx,
                   article, entries, artifact, exitCode, fatal, hist, slept,
                   call, lookups, limit, kid_ids, fut, comments, result>>

\* generate_pdf(entries) and the end of main: write_pdf either writes the
\* file or raises
GeneratePdf ==
    /\ pc = "render"
    /\ \E ok \in BOOLEAN :
        IF ok
        THEN /\ artifact' = [written |-> TRUE,
                             name |-> FileName(Yesterday(now + elapsed, tz)),
                             toc_date |-> TocDate(Yesterday(now + elapsed, tz)),
                             toc |-> TocEntries(entries),
                             sections |-> Sections(entries)]
             /\ pc' = "exit"
             /\ exitCode' = 0
             /\ UNCHANGED fatal
        ELSE /\ Terminate("RenderError", 1)
             /\ UNCHANGED artifact
    /\ UNCHANGED <<caller, now, tz, elapsed, url, imgs, outs, filter, posts, idx, article, entries, hist,
                   slept, call, lookups, limit, kid_ids, fut, comments, result>>

\* ------------------------------------------------------------------------
\* Specifications
\* ------------------------------------------------------------------------
Next ==
    \/ FindTopPostsBegin
    \/ DiscoverAttempt
    \/ FetchArticle
    \/ StoryAttempt
    \/ SubmitBatch
    \/ \E i \in 1..Len(fut) : WorkerAttempt(i)
    \/ SortAndReturn
    \/ GeneratePdf

Spec == Init /\ [][Next]_vars

\* A whole run on a host in any of the time zones, taking any of the times
InitDate ==
    /\ pc = "start"
    /\ caller = "main"
    /\ now \in NowChoices
    /\ filter = << >>
    /\ posts = << >>
    /\ idx = 0
    /\ article = "None"
    /\ entries = << >>
    /\ artifact = NoArtifact
    /\ exitCode = -1
    /\ fatal = "none"
    /\ hist = << >>
    /\ slept = << >>
    /\ call = "idle"
    /\ lookups = {}
    /\ limit = MAX_COMMENTS
    /\ kid_ids = << >>
    /\ fut = << >>
    /\ comments = << >>
    /\ result = << >>
    /\ tz \in TzChoices
    /\ elapsed = 0
    /\ url = << >>
    /\ imgs = << >>
    /\ outs = << >>

NextDate ==
    \/ FindTopPostsBegin
    \/ DiscoverAttempt
    \/ FetchArticle
    \/ StoryAttempt
    \/ SubmitBatch
    \/ \E i \in 1..Len(fut) : WorkerAttempt(i)
    \/ SortAndReturn
    \/ ClockAdvance
    \/ GeneratePdf

SpecDate == InitDate /\ [][NextDate]_vars

\* fetch_top_comments(story_id, limit) called on its own
InitComments ==
    /\ pc = "story"
    /\ caller = "direct"
    /\ now = 0
    /\ filter = << >>
    /\ posts = << >>
    /\ idx = 0
    /\ article = "None"
    /\ entries = << >>
    /\ artifact = NoArtifact
    /\ exitCode = -1
    /\ fatal = "none"
    /\ hist = << >>
    /\ slept = << >>
    /\ call = "running"
    /\ lookups = {}
    /\ limit \in 1..MaxLimit
    /\ kid_ids = << >>
    /\ fut = << >>
    /\ comments = << >>
    /\ result = << >>
    /\ tz = 0
    /\ elapsed = 0
    /\ url = << >>
    /\ imgs = << >>
    /\ outs = << >>

NextComments ==
    \/ StoryAttempt
    \/ SubmitBatch
    \/ \E i \in 1..Len(fut) : WorkerAttempt(i)
    \/ SortAndReturn

SpecComments == InitComments /\ [][NextComments]_vars

\* fetch_top_comments(story_id, limit) called on its own on a long thread
InitLong ==
    /\ pc = "story"
    /\ caller = "long"
    /\ now = 0
    /\ filter = << >>
    /\ posts = << >>
    /\ idx = 0
    /\ article = "None"
    /\ entries = << >>
    /\ artifact = NoArtifact
    /\ exitCode = -1
    /\ fatal = "none"
    /\ hist = << >>
    /\ slept = << >>
    /\ call = "running"
    /\ lookups = {}
    /\ limit \in 1..MaxLimit
    /\ kid_ids = << >>
    /\ fut = << >>
    /\ comments = << >>
    /\ result = << >>
    /\ tz = 0
    /\ elapsed = 0
    /\ url = << >>
    /\ imgs = << >>
    /\ outs = << >>

NextLong ==
    \/ StoryAttempt
    \/ SubmitBatch
    \/ \E i \in 1..Len(fut) : WorkerAttempt(i)
    \/ SortAndReturn

SpecLong == InitLong /\ [][NextLong]_vars

\* fetch_article(url) called on its own with a present url
InitArticle ==
    /\ pc = "get"
    /\ caller = "direct"
    /\ now = 0
    /\ filter = << >>
    /\ posts = << >>
    /\ idx = 0
    /\ article = "None"
    /\ entries = << >>
    /\ artifact = NoArtifact
    /\ exitCode = -1
    /\ fatal = "none"
    /\ hist = << >>
    /\ slept = << >>
    /\ call = "idle"
    /\ lookups = {}
    /\ limit = MAX_COMMENTS
    /\ kid_ids = << >>
    /\ fut = << >>
    /\ comments = << >>
    /\ result = << >>
    /\ tz = 0
    /\ elapsed = 0
    /\ url \in PageUrls
    /\ imgs = << >>
    /\ outs = << >>

NextArticle ==
    \/ ArticleGet
    \/ ImgStep
    \/ ArticleReturn

SpecArticle == InitArticle /\ [][NextArticle]_vars

\* ------------------------------------------------------------------------
\* Properties
\* ------------------------------------------------------------------------
\* A failure in the sense of section 4.1: a connection error, a timeout or
\* a status outside 200..299
IsFailure(o) ==
    \/ o \in {"conn", "timeout"}
    \/ ~(200 <= StatusOf(o) /\ StatusOf(o) < 300)

AllFailures(h) == \A i \in 1..Len(h) : IsFailure(h[i])

\* C1: a retry-wrapped call never makes more than three attempts; it
\* returns exactly when an attempt is not a failure (connection error,
\* timeout, non-2xx status), every attempt before it being one, and it
\* raises exactly when three attempts have failed.
C1_RetryContract ==
    /\ Len(hist) <= Retries
    /\ call = "running" => (Len(hist) < Retries /\ AllFailures(hist))
    /\ call = "returned" =>
          /\ hist # << >>
          /\ ~IsFailure(hist[Len(hist)])
          /\ AllFailures(SubSeq(hist, 1, Len(hist) - 1))
    /\ call = "raised" => (Len(hist) = Retries /\ AllFailures(hist))

\* C2: fetch_top_comments returns at most limit items, each of type
\* "comment", neither deleted nor dead.
C2_ResultBoundedAndFiltered ==
    pc = "returned" =>
        /\ Len(result) <= limit
        /\ \A k \in 1..Len(result) :
              /\ result[k].type = "comment"
              /\ ~result[k].deleted
              /\ ~result[k].dead

\* A call that had to truncate, after at least one candidate was filtered out
C2_Witness ==
    /\ pc = "returned"
    /\ Len(result) = limit
    /\ Len(comments) > limit
    /\ Len(comments) < Len(fut)

\* 0-based position of an identifier in the story's reply-identifier list
PositionIn(kids, id) == (CHOOSE i \in 1..Len(kids) : kids[i] = id) - 1

\* c comes before d in the ranking: more replies, or as many and earlier
\* in the story's reply list
RankedBefore(c, d) ==
    \/ c.kids > d.kids
    \/ (c.kids = d.kids /\ PositionIn(kid_ids, c.id) < PositionIn(kid_ids, d.id))

\* C3: whatever the order in which the lookups finished, the result is the
\* set of surviving candidates ordered by descending reply count, ties by
\* ascending position in the story's reply list, cut to limit.
C3_DeterministicOrder ==
    pc = "returned" =>
        LET S == Range(comments) IN
        /\ Len(result) = Min(Cardinality(S), limit)
        /\ \A k \in 1..Len(result) :
              /\ result[k] \in S
              /\ Cardinality({d \in S : RankedBefore(d, result[k])}) = k - 1

\* Reply counts [3, 1, 3] at positions [0, 1, 2] with limit 2 give
\* [position 0, position 2]
C3_Witness ==
    /\ pc = "returned"
    /\ limit = 2
    /\ Len(kid_ids) = 3
    /\ Len(comments) = 3
    /\ \E c \in Range(comments) : c.id = kid_ids[2] /\ c.kids = 1
    /\ Len(result) = 2
    /\ result[1].id = kid_ids[1] /\ result[1].kids = 3
    /\ result[2].id = kid_ids[3] /\ result[2].kids = 3

\* C4: a written artifact has one section and one table-of-contents entry
\* per discovered post, and the i-th of each is the i-th discovered post.
C4_SectionsInDiscoveryOrder ==
    artifact.written =>
        /\ Len(artifact.sections) = Len(posts)
        /\ Len(artifact.toc) = Len(posts)
        /\ \A i \in 1..Len(posts) :
              /\ artifact.sections[i].rank = i
              /\ artifact.sections[i].story_id = posts[i].id
              /\ artifact.toc[i].rank = i
              /\ artifact.toc[i].title = posts[i].id

\* Two posts, the first without its article although it has a URL, the
\* second with comments
C4_Witness ==
    /\ artifact.written
    /\ Len(posts) = MaxHits
    /\ posts[1].url /\ entries[1].article = "None"
    /\ entries[Len(entries)].comments # << >>

\* The discovery query was answered with a JSON body holding no hit
ZeroHits ==
    /\ posts = << >>
    /\ call = "returned"
    /\ hist # << >>
    /\ hist[Len(hist)] = "s200"

\* C5: after a zero-hit discovery the process ends with exit code 0 by the
\* SystemExit raised in find_top_posts_yesterday, without any article or
\* item lookup and without an artifact.
C5_ZeroHitsCleanExit ==
    (pc = "exit" /\ ZeroHits) =>
        /\ exitCode = 0
        /\ fatal = "SystemExit"
        /\ lookups = {}
        /\ ~artifact.written

C5_Witness == pc = "exit" /\ ZeroHits /\ Len(hist) = 2

SelfTextPresent(post) == post.story_text \notin {"None", ""}

\* C6: fetch_article never raises, and a section whose article is absent
\* has the self-text as body if the post has one, else the placeholder.
C6_FetchArticleNeverRaises ==
    /\ ~(pc = "exit" /\ fatal = "ValueError")
    /\ artifact.written =>
          \A i \in 1..Len(entries) :
              entries[i].article = "None" =>
                  artifact.sections[i].article_section =
                      IF SelfTextPresent(entries[i].post)
                      THEN << "story_text" >> ELSE << "unavailable" >>

\* C7: once discovery has returned posts, the run ends in or after
\* generate_pdf with one entry per discovered post.
C7_PerPostFailuresIsolated ==
    (pc = "exit" /\ posts # << >>) =>
        /\ fatal \in {"none", "RenderError"}
        /\ Len(entries) = Len(posts)

\* C8: every section has exactly one body: the article if there is one,
\* else the (non-empty) self-text if the post has one, else the placeholder.
C8_ExactlyOneBody ==
    artifact.written =>
        \A i \in 1..Len(entries) :
            LET body == artifact.sections[i].article_section IN
            /\ Len(body) = 1
            /\ entries[i].article # "None" => body[1] = "article"
            /\ (entries[i].article = "None" /\ SelfTextPresent(entries[i].post))
                  => body[1] = "story_text"
            /\ (entries[i].article = "None" /\ ~SelfTextPresent(entries[i].post))
                  => body[1] = "unavailable"

\* One section with both an article and a self-text, one with the self-text
\* only
C8_Witness ==
    /\ artifact.written
    /\ \E i, j \in 1..Len(entries) :
          /\ entries[i].article = "content"
          /\ SelfTextPresent(entries[i].post)
          /\ artifact.sections[i].article_section = << "article" >>
          /\ entries[j].article = "None"
          /\ artifact.sections[j].article_section = << "story_text" >>

\* Creation times around the two ends of the window
ProbeTimes ==
    {YesterdayStart(now) - 1, YesterdayStart(now), YesterdayStart(now) + 1,
     YesterdayEnd(now) - 1, YesterdayEnd(now), YesterdayEnd(now) + 1}

\* C9: the filter sent selects exactly the creation times t with
\* start <= t < end.
C9_HalfOpenWindow ==
    filter # << >> =>
        \A t \in ProbeTimes :
            Matches(filter, t) <=> (YesterdayStart(now) <= t /\ t < YesterdayEnd(now))

\* C10: the exit code is 0 exactly when the artifact was written or
\* discovery had zero hits; when the discovery query fails on all attempts
\* the exit code is not 0, no per-post fetch was issued and no artifact
\* written; when assembly or rendering raises the exit code is not 0.
C10_ExitCodes ==
    pc = "exit" =>
        /\ exitCode = 0 <=> (artifact.written \/ ZeroHits)
        /\ (posts = << >> /\ call = "raised") =>
              (exitCode # 0 /\ lookups = {} /\ ~artifact.written)
        /\ fatal \in {"ValueError", "RenderError"} => exitCode # 0

\* The discovery query failed three times
C10_Witness ==
    /\ pc = "exit"
    /\ posts = << >>
    /\ call = "raised"
    /\ Len(hist) = Retries
    /\ exitCode = 1


\* The target a reference has against a base by RFC 3986 section 5.2, for
\* the forms of reference drawn here: an absolute URI is its own target, a
\* network-path reference takes the base's scheme, an absolute-path
\* reference the base's scheme and authority, and a relative-path reference
\* is read from the directory of the base's path ("." being that directory
\* and ".." the one above it, the root being its own parent).
Origin(u) == SubSeq(u, 1, 4)

BaseDir(u) ==
    SubSeq(u, 1, CHOOSE i \in 1..Len(u) :
                     u[i] = "/" /\ \A j \in (i + 1)..Len(u) : u[j] # "/")

ParentDir(d) == IF Len(d) <= 5 THEN d ELSE SubSeq(d, 1, Len(d) - 2)

Rfc3986Target(u, src) ==
    IF Len(src) >= 2 /\ src[2] = ":" THEN src
    ELSE IF src[1] = "//" THEN <<u[1], ":">> \o src
    ELSE IF src[1] = "/" THEN Origin(u) \o src
    ELSE IF src[1] = ".." THEN ParentDir(BaseDir(u)) \o SubSeq(src, 3, Len(src))
    ELSE IF src[1] = "." THEN BaseDir(u) \o SubSeq(src, 3, Len(src))
    ELSE BaseDir(u) \o src

\* C11: every img the loop of fetch_article has gone over keeps its src when
\* the src is empty or starts with "http://", "https://" or "data:", and has
\* otherwise the src's resolution against the page URL as its new src.
C11_ImageSourcesRewritten ==
    \A k \in 1..Len(outs) :
        outs[k] =
            IF \/ imgs[k] = << >>
               \/ StartsWith(imgs[k], <<"http", ":", "//">>)
               \/ StartsWith(imgs[k], <<"https", ":", "//">>)
               \/ StartsWith(imgs[k], <<"data", ":">>)
            THEN imgs[k]
            ELSE Rfc3986Target(url, imgs[k])

\* fetch_article has returned content for "https://ex.com/post" whose
\* fragment held "/img/a.png", now "https://ex.com/img/a.png", and a data:
\* image, left as it was
C11_Witness ==
    /\ pc = "returned"
    /\ article = "content"
    /\ url = <<"https", ":", "//", "ex.com", "/", "post">>
    /\ imgs = << <<"/", "img", "/", "a.png">>, <<"data", ":", "image/png;base64,AAAA">> >>
    /\ outs = << <<"https", ":", "//", "ex.com", "/", "img", "/", "a.png">>,
                 <<"data", ":", "image/png;base64,AAAA">> >>

\* C12: fetch_article returns absent on a transport failure only after
\* three attempts at the page have been made, and makes no more than three.
C12_ArticleFetchRetried ==
    /\ Len(hist) <= Retries
    /\ (pc = "returned" /\ hist # << >> /\ AttemptRaises(hist[Len(hist)]))
           => Len(hist) = Retries

\* C13: the lookups of one fetch_top_comments call are those of the first
\* min(len(kids), limit + 10) reply identifiers of the story, one each and in
\* the order of the reply list, and nothing collected comes from elsewhere.
C13_CandidateBatch ==
    pc \in {"pool", "returned"} =>
        /\ Len(fut) = Min(Len(kid_ids), limit + 10)
        /\ \A i \in 1..Len(fut) : fut[i].cid = kid_ids[i]
        /\ \A c \in Range(comments) \cup Range(result) :
              \E i \in 1..Min(Len(kid_ids), limit + 10) : c.id = kid_ids[i]

\* A call on a story with more replies than the batch takes has returned
\* comments
C13_Witness ==
    /\ pc = "returned"
    /\ Len(kid_ids) > limit + 10
    /\ Len(fut) = limit + 10
    /\ \A i \in 1..Len(fut) : fut[i].st = "done"
    /\ result # << >>

\* C14: fetch_top_comments has returned, or has a selection, only when every
\* lookup of its batch has completed, with an item or without.
C14_JoinAll ==
    (pc = "returned" \/ result # << >>) =>
        \A i \in 1..Len(fut) : fut[i].st = "done" /\ fut[i].got # "pending"

\* A call has returned whose batch gave more comments than limit, one
\* lookup having failed
C14_Witness ==
    /\ pc = "returned"
    /\ Len(comments) > limit
    /\ Len(result) = limit
    /\ Len(fut) > Len(comments)
    /\ \E i \in 1..Len(fut) : fut[i].got = "failed"

\* Requests in flight: the lookups of the pool threads at work, and the
\* request the main thread is blocked in (discovery query, article page,
\* story lookup)
Outstanding ==
    Cardinality({i \in 1..Len(fut) : fut[i].st = "running"})
    + (IF pc \in {"discover", "story", "get"} THEN 1
       ELSE IF pc = "post" /\ posts[idx].url THEN 1
       ELSE 0)

\* C15: at no point are more than 10 upstream fetches outstanding.
C15_BoundedOutstanding == Outstanding <= 10

\* Ten lookups of a batch are in flight while a further one waits for a
\* free thread
C15_Witness ==
    /\ pc = "pool"
    /\ Outstanding = 10
    /\ \E i \in 1..Len(fut) : fut[i].st = "queued"

RECURSIVE SumSeq(_)
SumSeq(q) == IF q = << >> THEN 0 ELSE Head(q) + SumSeq(Tail(q))

\* C16: in a retry call the sleep after the k-th failed attempt, k = 1, 2,
\* is k seconds, there is one sleep for each failed attempt but the third,
\* and a call that fails three times has slept 3 seconds when it raises.
C16_LinearBackoff ==
    /\ \A k \in 1..Len(slept) : slept[k] = k
    /\ Len(slept) = Cardinality({k \in 1..Len(hist) : k < 3 /\ AttemptRaises(hist[k])})
    /\ call = "raised" => Len(hist) = 3 /\ SumSeq(slept) = 3

\* A retry call has failed three times and raised
C16_Witness ==
    /\ call = "raised"
    /\ \A k \in 1..Len(hist) : AttemptRaises(hist[k])
    /\ slept = <<1, 2>>

\* C17: when generate_pdf is called, and ever after, entries holds one
\* entry for every discovered post, made of the finished fetch_article and
\* fetch_top_comments calls for it; no request of the run is still pending,
\* and an article page was asked for if some post has a URL.
C17_AllPostsProcessedBeforeRender ==
    (pc = "render" \/ artifact.written) =>
        /\ Len(entries) = Len(posts)
        /\ \A i \in 1..Len(posts) :
              /\ entries[i].post = posts[i]
              /\ entries[i].article # "None" => posts[i].url
        /\ call = "idle"
        /\ fut = << >>
        /\ "item" \in lookups
        /\ (\E i \in 1..Len(posts) : posts[i].url) => "article" \in lookups

\* generate_pdf is about to be called for two posts, one of which has an
\* article and one comments
C17_Witness ==
    /\ pc = "render"
    /\ Len(posts) >= 2
    /\ \E i \in 1..Len(entries) : entries[i].article # "None"
    /\ \E i \in 1..Len(entries) : entries[i].comments # << >>

\* C18: a live comment without text (and without author) that a lookup of
\* the batch gave is among the collected comments; it is in the result
\* exactly when fewer than limit collected comments rank before it; and its
\* block has the placeholder body and the placeholder author.
C18_BareCommentKept ==
    pc = "returned" =>
        \A i \in 1..Len(fut) :
            fut[i].got = "c1bare" =>
                LET c == ItemJson(fut[i].cid, "c1bare") IN
                /\ c \in Range(comments)
                /\ c \in Range(result) <=>
                      Cardinality({d \in Range(comments) : RankedBefore(d, c)}) < limit
                /\ CommentBlock(c) = [author |-> "[unknown]",
                                      body |-> "<em>[deleted]</em>",
                                      reply_count |-> 1]

\* A bare comment was selected ahead of a comment with text and no replies,
\* which the cut left out
C18_Witness ==
    /\ pc = "returned"
    /\ limit = 1
    /\ Len(result) = 1
    /\ ~result[1].text
    /\ \E d \in Range(comments) : d.text /\ d.kids = 0

\* The items of the batch whose lookup gave an item that is a comment,
\* neither deleted nor dead
Survivors ==
    {c \in {ItemJson(fut[i].cid, fut[i].got) :
               i \in {j \in 1..Len(fut) : fut[j].got \notin {"pending", "failed"}}} :
        c.type = "comment" /\ ~c.deleted /\ ~c.dead}

\* The story lookup of the call gave no item: it raised after its last
\* attempt, or its body was no JSON
RootFailed ==
    \/ call = "raised"
    \/ call = "returned" /\ hist # << >> /\ JsonRaises(hist[Len(hist)])

\* C19: the result of fetch_top_comments is the ranking, cut to limit, of
\* the candidates whose lookup gave an item that passes the filter, a failed
\* lookup removing its own candidate only; when the story lookup fails the
\* result is empty and there is no candidate lookup.
C19_FailedLookupsDropped ==
    pc = "returned" =>
        /\ Len(result) = Min(Cardinality(Survivors), limit)
        /\ \A k \in 1..Len(result) :
              /\ result[k] \in Survivors
              /\ Cardinality({d \in Survivors : RankedBefore(d, result[k])}) = k - 1
        /\ RootFailed => result = << >> /\ fut = << >>

\* Two lookups of a batch of three gave no item and the third candidate is
\* the result
C19_Witness ==
    /\ pc = "returned"
    /\ Len(fut) = 3
    /\ Cardinality({i \in 1..Len(fut) : fut[i].got = "failed"}) = 2
    /\ Len(result) = 1

\* C20: the file name and the table-of-contents label of a written
\* artifact carry the UTC calendar day the discovery window of the run
\* covered, the day that starts at yesterday_start.
C20_ArtifactDateIsWindowDay ==
    artifact.written =>
        LET d == CivilFromDays(YesterdayStart(now) \div SecondsPerDay) IN
        /\ artifact.name = <<d.year, "-", d.month, "-", d.day, ".pdf">>
        /\ artifact.toc_date = <<MonthNames[d.month], d.day, ",", d.year>>

\* C21: the GETs of one retry call (hist holds one outcome per GET) are at
\* most 3; every GET but the last one failed, so none follows a success; a
\* call that returned made as many GETs as the index of its first
\* successful attempt; a call that raised made exactly 3; and a call still
\* going on has made fewer than 3.
C21_RequestCount ==
    /\ Len(hist) <= 3
    /\ \A k \in 1..(Len(hist) - 1) : AttemptRaises(hist[k])
    /\ call = "returned" =>
          /\ hist # << >>
          /\ Len(hist) = CHOOSE k \in 1..Len(hist) :
                            /\ ~AttemptRaises(hist[k])
                            /\ \A j \in 1..(k - 1) : AttemptRaises(hist[j])
    /\ call = "raised" =>
          /\ Len(hist) = 3
          /\ \A k \in 1..3 : AttemptRaises(hist[k])
    /\ call = "running" => Len(hist) < 3

\* A retry call returned the response of its third GET after two failures
C21_Witness ==
    /\ call = "returned"
    /\ Len(hist) = 3
    /\ AttemptRaises(hist[1])
    /\ AttemptRaises(hist[2])
    /\ hist[3] = "s200"
====
